---- MODULE Spec2Model ----
(***************************************************************************)
(* Model of the two command-line snippets of rust-examples/simple-cli:     *)
(*   simple-cli/src/main.rs           (registry + validation, "simple-cli")*)
(*   simple-cli/argument/src/main.rs  (earlier draft, "argument")          *)
(*                                                                         *)
(* A Rust String is modelled as the sequence of its characters, so that    *)
(* starts_with, slicing and byte-wise ordering are computed, not assumed.  *)
(* Rust indices are 0-based; TLA+ sequences are 1-based: a Rust index i is *)
(* element i + 1 here.                                                     *)
(***************************************************************************)
EXTENDS Integers, Sequences, FiniteSets, TLC

VARIABLES
    program,       \* which of the two binaries runs
    process_args,  \* env::args().collect(): program name, then the tokens
    pc,            \* position in main (or "lib" in the API harness)
    args,          \* main's `args` after split_args
    extra_args,    \* main's `extra_args` after split_args
    registry,      \* app_arguments.args, the BTreeMap, as its sorted entries
    iter,          \* parse: number of tokens the iterator has yielded
    validated,     \* history: tokens validate_arg has been called on, in order
    result,        \* what parse returned
    exit_code,     \* argument of process::exit, if it was called
    inserted,      \* harness history: the arguments given to insert_arg
    calls          \* harness history: the validate_arg calls made on the current registry

vars == <<program, process_args, pc, args, extra_args, registry, iter,
          validated, result, exit_code, inserted, calls>>

----------------------------------------------------------------------------
(* Bounds *)

MaxArgs == 3
MaxInserts == 3
MaxCalls == 2

----------------------------------------------------------------------------
(* Option and Result values *)

None == [some |-> FALSE, val |-> <<>>]
Some(v) == [some |-> TRUE, val |-> v]

Ok == [kind |-> "Ok", payload |-> <<>>]
Err(kind, payload) == [kind |-> kind, payload |-> payload]
UnexpectedArgument(s) == Err("UnexpectedArgument", s)
DuplicateArgument(s) == Err("DuplicateArgument", s)
NoResult == [kind |-> "NoResult", payload |-> <<>>]

----------------------------------------------------------------------------
(* Strings *)

SHORT_ARG_PREFIX == <<"-">>
ARG_PREFIX == <<"-", "-">>

S_id == <<"i", "d">>
S_daemonize == <<"d", "a", "e", "m", "o", "n", "i", "z", "e">>
S_b == <<"b">>
S_jail_id == "jail ID"
S_daemonize_help == "Daemonize the jailer before execing"
S_empty == <<>>
S_dash_id == <<"-">> \o S_id
HELP_FLAG == <<"-", "-", "h", "e", "l", "p">>
SEPARATOR == <<"-", "-">>
PROGRAM_NAME == <<"a">>

\* The tokens the command line is drawn from.
Tokens ==
    { SEPARATOR,                  \* "--"
      HELP_FLAG,                  \* "--help"
      ARG_PREFIX \o S_id,         \* "--id"
      SHORT_ARG_PREFIX \o S_id,   \* "-id"
      S_id,                       \* "id"
      ARG_PREFIX \o S_daemonize,  \* "--daemonize"
      ARG_PREFIX \o S_dash_id,    \* "---id"
      SHORT_ARG_PREFIX,           \* "-"
      ARG_PREFIX \o S_b,          \* "--b"
      S_empty }                   \* ""

\* Byte values of the characters used (str compares byte-wise).
Byte == [c \in {"-", "a", "b", "d", "e", "h", "i", "l", "m", "n", "o", "p", "z"} |->
            CASE c = "-" -> 45 [] c = "a" -> 97 [] c = "b" -> 98
              [] c = "d" -> 100 [] c = "e" -> 101 [] c = "h" -> 104
              [] c = "i" -> 105 [] c = "l" -> 108 [] c = "m" -> 109
              [] c = "n" -> 110 [] c = "o" -> 111 [] c = "p" -> 112
              [] c = "z" -> 122]

\* str::starts_with
starts_with(s, p) == Len(s) >= Len(p) /\ SubSeq(s, 1, Len(p)) = p

\* &s[n..]
slice_from(s, n) == SubSeq(s, n + 1, Len(s))

\* Ord for str: lexicographic on bytes.
RECURSIVE str_lt(_, _)
str_lt(a, b) ==
    IF b = <<>> THEN FALSE
    ELSE IF a = <<>> THEN TRUE
    ELSE IF a[1] = b[1] THEN str_lt(Tail(a), Tail(b))
    ELSE Byte[a[1]] < Byte[b[1]]

\* Sequences over S of length at most n.
SeqsUpTo(S, n) == UNION { [1..k -> S] : k \in 0..n }

----------------------------------------------------------------------------
(* split_args *)

is_separator_prefix(arg) == starts_with(arg, SEPARATOR)

\* the closure |arg| arg == "--"
is_separator(arg) == arg = SEPARATOR

\* Iterator::position: Some(0-based index of the first match) or None.
RECURSIVE position_from(_, _)
position_from(xs, i) ==
    IF i >= Len(xs) THEN None
    ELSE IF is_separator(xs[i + 1]) THEN Some(i)
    ELSE position_from(xs, i + 1)

position(xs) == position_from(xs, 0)

split_args_keeps_separator(xs) ==
    LET found == position(xs) IN
    IF found.some
    THEN <<SubSeq(xs, 1, found.val), slice_from(xs, found.val)>>
    ELSE <<xs, <<>>>>

\* split_args(args) = (own, forwarded)
split_args(xs) ==
    LET found == position(xs) IN
    IF found.some
    THEN <<SubSeq(xs, 1, found.val), slice_from(xs, found.val + 1)>>
    ELSE <<xs, <<>>>>

----------------------------------------------------------------------------
(* Argument *)

Argument_new_used(name) ==
    [name |-> name, required |-> FALSE, help |-> None, takes_value |-> FALSE,
     default_value |-> None, user_value |-> Some("")]

Argument_new(name) ==
    [name |-> name, required |-> FALSE, help |-> None, takes_value |-> FALSE,
     default_value |-> None, user_value |-> None]

Argument_required(self, req) == [self EXCEPT !.required = req]

Argument_takes_value(self, tv) == [self EXCEPT !.takes_value = tv]

Argument_help(self, text) == [self EXCEPT !.help = Some(text)]

----------------------------------------------------------------------------
(* Arguments: args is a BTreeMap<&str, Argument>, modelled as the sequence  *)
(* of its entries in iteration order.                                       *)

Arguments_new == <<>>

keys(m) == { m[i].key : i \in 1..Len(m) }

btree_insert_keep_first(m, k, v) ==
    LET n == Cardinality({ i \in 1..Len(m) : str_lt(m[i].key, k) }) IN
    IF n < Len(m) /\ m[n + 1].key = k
    THEN m
    ELSE SubSeq(m, 1, n) \o <<[key |-> k, value |-> v]>> \o SubSeq(m, n + 1, Len(m))

\* BTreeMap::insert: replace the value of an equal key, else place the entry
\* after every smaller key.
btree_insert(m, k, v) ==
    LET n == Cardinality({ i \in 1..Len(m) : str_lt(m[i].key, k) }) IN
    IF n < Len(m) /\ m[n + 1].key = k
    THEN [m EXCEPT ![n + 1].value = v]
    ELSE SubSeq(m, 1, n) \o <<[key |-> k, value |-> v]>> \o SubSeq(m, n + 1, Len(m))

\* BTreeMap::get
btree_get(m, k) ==
    IF \E i \in 1..Len(m) : m[i].key = k
    THEN Some(m[CHOOSE i \in 1..Len(m) : m[i].key = k].value)
    ELSE None

insert_arg(self, argument) == btree_insert(self, argument.name, argument)

has_prefix(arg) ==
    starts_with(arg, ARG_PREFIX) \/ starts_with(arg, SHORT_ARG_PREFIX)

arg_name_short_first(arg) ==
    IF starts_with(arg, SHORT_ARG_PREFIX)
    THEN slice_from(arg, Len(SHORT_ARG_PREFIX))
    ELSE slice_from(arg, Len(ARG_PREFIX))

\* the local arg_name of validate_arg
arg_name(arg) ==
    IF starts_with(arg, ARG_PREFIX)
    THEN slice_from(arg, Len(ARG_PREFIX))
    ELSE slice_from(arg, Len(SHORT_ARG_PREFIX))

validate_arg_no_prefix_check(self, arg) ==
    LET found == btree_get(self, IF has_prefix(arg) THEN arg_name(arg) ELSE arg) IN
    IF ~found.some
    THEN UnexpectedArgument(IF has_prefix(arg) THEN arg_name(arg) ELSE arg)
    ELSE IF found.val.user_value.some
    THEN DuplicateArgument(arg_name(arg))
    ELSE Ok

validate_arg_reports_token(self, arg) ==
    IF ~has_prefix(arg)
    THEN UnexpectedArgument(arg)
    ELSE LET found == btree_get(self, arg_name(arg)) IN
         IF ~found.some
         THEN UnexpectedArgument(arg)
         ELSE IF found.val.user_value.some
         THEN DuplicateArgument(arg_name(arg))
         ELSE Ok

\* Arguments::validate_arg (simple-cli)
validate_arg(self, arg) ==
    IF ~has_prefix(arg)
    THEN UnexpectedArgument(arg)
    ELSE LET found == btree_get(self, arg_name(arg)) IN
         IF ~found.some
         THEN UnexpectedArgument(arg_name(arg))
         ELSE IF found.val.user_value.some
         THEN DuplicateArgument(arg_name(arg))
         ELSE Ok

\* validate_arg (argument): the free function, no registry
argument_validate_arg(arg) ==
    IF ~has_prefix(arg)
    THEN UnexpectedArgument(arg)
    ELSE Ok

build_cmd_arguments ==
    insert_arg(
        insert_arg(Arguments_new,
                   Argument_help(
                       Argument_takes_value(
                           Argument_required(Argument_new(S_id), TRUE), TRUE),
                       S_jail_id)),
        Argument_help(Argument_new(S_daemonize), S_daemonize_help))

----------------------------------------------------------------------------
(* parse and main *)

Programs == {"simple-cli", "argument"}

\* the validate_arg that parse of the running program calls
validate_for(prog, reg, arg) ==
    IF prog = "simple-cli" THEN validate_arg(reg, arg)
    ELSE argument_validate_arg(arg)

is_err_ignored(r) == FALSE

\* the `?` after validate_arg: an Err returns from parse
is_err(r) == r.kind # "Ok"

any_help_first_only(xs) == xs # <<>> /\ xs[1] = HELP_FLAG

\* args.iter().any(|arg| arg == "--help")
any_help(xs) == \E i \in 1..Len(xs) : xs[i] = HELP_FLAG

----------------------------------------------------------------------------
(* The two binaries: main, from process start to process end *)

Init ==
    /\ program \in Programs
    /\ process_args \in { <<PROGRAM_NAME>> \o ts : ts \in SeqsUpTo(Tokens, MaxArgs) }
    /\ pc = "start"
    /\ args = <<>>
    /\ extra_args = <<>>
    /\ registry = Arguments_new
    /\ iter = 0
    /\ validated = <<>>
    /\ result = NoResult
    /\ exit_code = None
    /\ inserted = <<>>
    /\ calls = {}

\* let (args, extra_args) = split_args(&args[1..]);
SplitArgs ==
    /\ pc = "start"
    /\ LET split == split_args(slice_from(process_args, 1)) IN
       /\ args' = split[1]
       /\ extra_args' = split[2]
    /\ pc' = "help"
    /\ UNCHANGED <<program, process_args, registry, iter, validated, result,
                   exit_code, inserted, calls>>

\* the two --help scans; the second one exits with status 0
HelpScan ==
    /\ pc = "help"
    /\ IF any_help(args)
       THEN /\ exit_code' = Some(0)
            /\ pc' = "exited"
       ELSE /\ exit_code' = exit_code
            /\ pc' = IF program = "simple-cli" THEN "build" ELSE "parse"
    /\ UNCHANGED <<program, process_args, args, extra_args, registry, iter,
                   validated, result, inserted, calls>>

\* let app_arguments = build_cmd_arguments();   (simple-cli only)
BuildCmdArguments ==
    /\ pc = "build"
    /\ registry' = build_cmd_arguments
    /\ pc' = "parse"
    /\ UNCHANGED <<program, process_args, args, extra_args, iter, validated,
                   result, exit_code, inserted, calls>>

\* parse: one turn of the while-let loop
ParseNext ==
    /\ pc = "parse"
    /\ iter < Len(args)
    /\ LET arg == args[iter + 1]
           r == validate_for(program, registry, arg) IN
       /\ iter' = iter + 1
       /\ validated' = Append(validated, arg)
       /\ IF is_err(r)
          THEN /\ result' = r
               /\ pc' = "match"
          ELSE /\ result' = result
               /\ pc' = pc
    /\ UNCHANGED <<program, process_args, args, extra_args, registry,
                   exit_code, inserted, calls>>

\* parse: the iterator is exhausted, Ok(())
ParseEnd ==
    /\ pc = "parse"
    /\ iter = Len(args)
    /\ result' = Ok
    /\ pc' = "match"
    /\ UNCHANGED <<program, process_args, args, extra_args, registry, iter,
                   validated, exit_code, inserted, calls>>

\* match parse(..) { Err(err) => process::exit(1), _ => println!(..) }
MainMatch ==
    /\ pc = "match"
    /\ IF result.kind # "Ok"
       THEN /\ exit_code' = Some(1)
            /\ pc' = "exited"
       ELSE /\ exit_code' = exit_code
            /\ pc' = "returned"
    /\ UNCHANGED <<program, process_args, args, extra_args, registry, iter,
                   validated, result, inserted, calls>>

Next ==
    \/ SplitArgs
    \/ HelpScan
    \/ BuildCmdArguments
    \/ ParseNext
    \/ ParseEnd
    \/ MainMatch

Spec == Init /\ [][Next]_vars

----------------------------------------------------------------------------
(* The registry API driven by an arbitrary caller: any insert_arg calls,    *)
(* and validate_arg calls on the registry built so far.                     *)

\* Arguments a caller builds with Argument::new and the builder methods.
ArgDefs ==
    { Argument_help(
          Argument_takes_value(Argument_required(Argument_new(S_id), TRUE), TRUE),
          S_jail_id),
      Argument_new(S_id),
      Argument_help(Argument_new(S_daemonize), S_daemonize_help),
      Argument_new(S_dash_id),
      Argument_new(S_empty) }

\* The tokens a caller validates.
LibTokens ==
    { SEPARATOR,                  \* "--"
      ARG_PREFIX \o S_id,         \* "--id"
      SHORT_ARG_PREFIX \o S_id,   \* "-id"
      S_id,                       \* "id"
      ARG_PREFIX \o S_dash_id,    \* "---id"
      SHORT_ARG_PREFIX,           \* "-"
      ARG_PREFIX \o S_b,          \* "--b"
      S_empty }                   \* ""

InitLib ==
    /\ program = "simple-cli"
    /\ process_args = <<PROGRAM_NAME>>
    /\ pc = "lib"
    /\ args = <<>>
    /\ extra_args = <<>>
    /\ registry = Arguments_new
    /\ iter = 0
    /\ validated = <<>>
    /\ result = NoResult
    /\ exit_code = None
    /\ inserted = <<>>
    /\ calls = {}

\* registry = registry.insert_arg(argument)
InsertArg ==
    /\ pc = "lib"
    /\ Len(inserted) < MaxInserts
    /\ \E argument \in ArgDefs :
        /\ registry' = insert_arg(registry, argument)
        /\ inserted' = Append(inserted, argument)
    /\ calls' = {}
    /\ UNCHANGED <<program, process_args, pc, args, extra_args, iter,
                   validated, result, exit_code>>

\* registry.validate_arg(arg)
ValidateArg ==
    /\ pc = "lib"
    /\ Cardinality(calls) < MaxCalls
    /\ \E arg \in LibTokens :
        calls' = calls \cup
                    {[fn |-> "Arguments::validate_arg",
                      arg |-> arg,
                      arg_name |-> IF has_prefix(arg) THEN Some(arg_name(arg)) ELSE None,
                      res |-> validate_arg(registry, arg)]}
    /\ UNCHANGED <<program, process_args, pc, args, extra_args, registry, iter,
                   validated, result, exit_code, inserted>>

\* validate_arg(arg) of the argument binary
ArgumentValidateArg ==
    /\ pc = "lib"
    /\ Cardinality(calls) < MaxCalls
    /\ \E arg \in LibTokens :
        calls' = calls \cup
                    {[fn |-> "validate_arg",
                      arg |-> arg,
                      arg_name |-> IF has_prefix(arg) THEN Some(arg_name(arg)) ELSE None,
                      res |-> argument_validate_arg(arg)]}
    /\ UNCHANGED <<program, process_args, pc, args, extra_args, registry, iter,
                   validated, result, exit_code, inserted>>

NextLib ==
    \/ InsertArg
    \/ ValidateArg
    \/ ArgumentValidateArg

SpecLib == InitLib /\ [][NextLib]_vars

----------------------------------------------------------------------------
(* Properties *)

\* the tokens handed to split_args
Input == SubSeq(process_args, 2, Len(process_args))

Dashes == <<"-", "-">>

HasSeparator(xs) == \E i \in 1..Len(xs) : xs[i] = Dashes

\* the name a prefixed token stands for: two characters off when it starts
\* with two dashes, one otherwise
Stripped(t) ==
    IF Len(t) >= 2 /\ t[1] = "-" /\ t[2] = "-"
    THEN SubSeq(t, 3, Len(t))
    ELSE SubSeq(t, 2, Len(t))

Prefixed(t) == Len(t) >= 1 /\ t[1] = "-"

MethodCalls == { c \in calls : c.fn = "Arguments::validate_arg" }

ParseReturned == pc \in {"match", "returned"} \/ (pc = "exited" /\ result # NoResult)

\* C1: if the input is A ++ ["--"] ++ B where A holds no "--", split_args
\* returns exactly (A, B): the first "--" is dropped, later ones stay in B.
C1_SplitAtFirstSeparator ==
    pc # "start" =>
        \A i \in 1..Len(Input) :
            LET A == SubSeq(Input, 1, i - 1)
                B == SubSeq(Input, i + 1, Len(Input)) IN
            (Input[i] = Dashes /\ ~HasSeparator(A)) =>
                (args = A /\ extra_args = B)

C1_Witness ==
    /\ pc # "start"
    /\ args # <<>>
    /\ HasSeparator(extra_args)
    /\ Input = args \o <<Dashes>> \o extra_args

\* C2: if no token of the input equals "--", split_args returns (input, []);
\* in particular ([], []) for the empty input.
C2_SplitWithoutSeparator ==
    (pc # "start" /\ ~HasSeparator(Input)) =>
        (args = Input /\ extra_args = <<>>)

C2_Witness ==
    /\ pc # "start"
    /\ Len(Input) >= 2
    /\ ~HasSeparator(Input)
    /\ \E i \in 1..Len(Input) : Len(Input[i]) > 2 /\ SubSeq(Input[i], 1, 2) = Dashes
    /\ args = Input
    /\ extra_args = <<>>

\* C3: a token that does not start with "-" is rejected by validate_arg (of
\* either binary) with UnexpectedArgument carrying the token itself, whatever
\* the registry holds.
C3_NoPrefixUnexpected ==
    \A c \in calls :
        ~Prefixed(c.arg) =>
            c.res = [kind |-> "UnexpectedArgument", payload |-> c.arg]

C3_Witness ==
    \E c \in MethodCalls :
        /\ c.arg = <<"i", "d">>
        /\ <<"i", "d">> \in keys(registry)
        /\ c.res = [kind |-> "UnexpectedArgument", payload |-> <<"i", "d">>]

\* C4: a prefixed token whose stripped name is not a key of the registry is
\* rejected by Arguments::validate_arg with UnexpectedArgument carrying the
\* stripped name.
C4_UnknownNameUnexpected ==
    \A c \in MethodCalls :
        (Prefixed(c.arg) /\ Stripped(c.arg) \notin keys(registry)) =>
            c.res = [kind |-> "UnexpectedArgument",
                            payload |-> Stripped(c.arg)]

C4_Witness ==
    \E c \in MethodCalls :
        /\ c.arg = <<"-", "-", "-", "i", "d">>
        /\ <<"i", "d">> \in keys(registry)
        /\ <<"-", "i", "d">> \notin keys(registry)
        /\ c.res = [kind |-> "UnexpectedArgument", payload |-> <<"-", "i", "d">>]

\* a token starting with "--" always has two characters stripped
LongPrefixFirst ==
    \A c \in MethodCalls :
        (Len(c.arg) >= 2 /\ SubSeq(c.arg, 1, 2) = Dashes) =>
            c.arg_name = Some(SubSeq(c.arg, 3, Len(c.arg)))

\* "--" + n and "-" + n both name n and validate alike
BothPrefixesName(n) ==
    \A c, d \in MethodCalls :
        (c.arg = Dashes \o n /\ d.arg = <<"-">> \o n) =>
            /\ c.arg_name = Some(n)
            /\ d.arg_name = Some(n)
            /\ c.res = d.res

\* C5 as stated: for every registered name n, "--" + n and "-" + n resolve to
\* n with the same result, and "--x" always names "x".
C5_Original ==
    /\ \A n \in keys(registry) : BothPrefixesName(n)
    /\ LongPrefixFirst

\* C5 amended: for every registered name n that does not itself start with
\* "-", "--" + n and "-" + n resolve to n with the same result; a token that
\* starts with "--" always has two characters stripped.
C5_BothPrefixesSameName ==
    /\ \A n \in keys(registry) : ~Prefixed(n) => BothPrefixesName(n)
    /\ LongPrefixFirst

C5_Witness ==
    /\ <<"i", "d">> \in keys(registry)
    /\ \E c, d \in MethodCalls :
        /\ c.arg = <<"-", "-", "i", "d">>
        /\ d.arg = <<"-", "i", "d">>
        /\ c.arg_name = Some(<<"i", "d">>)
        /\ d.arg_name = Some(<<"i", "d">>)
        /\ c.res = Ok
        /\ d.res = Ok

\* token j of args repeats a recognized argument, and every token before it
\* is recognized and not itself a repetition
Recognized(t) == Prefixed(t) /\ Stripped(t) \in keys(registry)

Repeats(j) ==
    \E i \in 1..(j - 1) : Stripped(args[i]) = Stripped(args[j])

FirstRepetition(j) ==
    /\ \A i \in 1..j : Recognized(args[i])
    /\ Repeats(j)
    /\ \A i \in 1..(j - 1) : ~Repeats(i)

\* C6: when a recognized argument is supplied a second time in one pass,
\* parse fails with DuplicateArgument(name) at the second occurrence.
C6_DuplicateRejected ==
    (program = "simple-cli" /\ ParseReturned) =>
        \A j \in 1..Len(args) :
            FirstRepetition(j) =>
                /\ result = [kind |-> "DuplicateArgument", payload |-> Stripped(args[j])]
                /\ validated = SubSeq(args, 1, j)

\* C7: parse validates the tokens in order, returns the error of the first
\* token validate_arg rejects without validating any later token, and
\* returns Ok after validating every token once when none is rejected.
C7_ParseFailFast ==
    LET V(i) == validate_for(program, registry, args[i])
        bad == { i \in 1..Len(args) : V(i).kind # "Ok" } IN
    /\ Len(validated) <= Len(args)
    /\ validated = SubSeq(args, 1, Len(validated))
    /\ \A i \in 1..(Len(validated) - 1) : i \notin bad
    /\ ParseReturned =>
        IF bad = {}
        THEN result = Ok /\ validated = args
        ELSE LET k == CHOOSE i \in bad : \A j \in bad : i <= j IN
             result = V(k) /\ validated = SubSeq(args, 1, k)

C7_Witness ==
    /\ pc = "match"
    /\ result.kind = "UnexpectedArgument"
    /\ Len(validated) = 2
    /\ Len(args) > 2
    /\ validate_for(program, registry, args[3]).kind # "Ok"

\* C8: the registry holds exactly one definition per inserted name, the one
\* of the last insert_arg with that name, in lexicographic order of name.
C8_RegistryLastWriteWins ==
    /\ keys(registry) = { inserted[j].name : j \in 1..Len(inserted) }
    /\ \A i \in 1..Len(registry) :
        LET js == { j \in 1..Len(inserted) : inserted[j].name = registry[i].key }
            last == CHOOSE j \in js : \A h \in js : h <= j IN
        registry[i].value = inserted[last]
    /\ \A i \in 1..(Len(registry) - 1) : str_lt(registry[i].key, registry[i + 1].key)

C8_Witness ==
    /\ \E i, j \in 1..Len(inserted) :
        i < j /\ inserted[i].name = inserted[j].name /\ inserted[i] # inserted[j]
    /\ \E i, j \in 1..Len(inserted) :
        i < j /\ str_lt(inserted[j].name, inserted[i].name)
    /\ Len(registry) = 2

\* C9: validation leaves the registry as build_cmd_arguments made it, and
\* user_value is absent on every definition in every reachable state.
C9_RegistryUnchanged ==
    /\ \A i \in 1..Len(registry) : ~registry[i].value.user_value.some
    /\ (program = "simple-cli" /\ (pc = "parse" \/ ParseReturned)) =>
        registry = build_cmd_arguments

C9_Witness ==
    /\ program = "simple-cli"
    /\ pc = "exited"
    /\ result.kind = "UnexpectedArgument"
    /\ Len(validated) >= 2
    /\ Len(registry) = 2

HelpRequested ==
    \E i \in 1..Len(Input) :
        /\ Input[i] = <<"-", "-", "h", "e", "l", "p">>
        /\ \A j \in 1..(i - 1) : Input[j] # Dashes

\* C10: if "--help" stands before the first "--", main exits with status 0
\* and parse is never called; otherwise main exits with status 1 exactly
\* when parse returns an error and returns normally when parse succeeds.
C10_HelpBeforeValidation ==
    /\ HelpRequested =>
        /\ pc \in {"start", "help", "exited"}
        /\ result = NoResult
        /\ validated = <<>>
        /\ pc = "exited" => exit_code = Some(0)
    /\ (~HelpRequested /\ pc = "exited") =>
        (exit_code = Some(1) /\ result.kind \notin {"Ok", "NoResult"})
    /\ (~HelpRequested /\ pc = "returned") =>
        (exit_code = None /\ result = Ok)

C10_Witness ==
    /\ pc = "exited"
    /\ exit_code = Some(0)
    /\ HelpRequested
    /\ \E i \in 1..Len(args) : args[i] = <<"i", "d">>
    /\ HasSeparator(Input)

====
